---- MODULE Spec2Model ----
(***************************************************************************)
(* Bandix dashboard: the client-side telemetry pipeline.                   *)
(*                                                                         *)
(* Two programs share the pipeline and are modelled side by side:          *)
(*   page = "app"    the standalone script app.js   (src/unnamed/part_000) *)
(*   page = "index"  the React page Index           (src/unnamed/part_005) *)
(*                   with bandixApi / formatters    (src/unnamed/part_001) *)
(*                   and ClientsTable               (src/unnamed/part_003) *)
(*                                                                         *)
(* Byte counts and rates are kept in units of 1000 (the demo device list   *)
(* of the source holds values above 2^31).  Display names and addresses    *)
(* are sequences of one-character strings so that split('.'),              *)
(* toLowerCase() and localeCompare() are computed, not assumed.            *)
(***************************************************************************)
EXTENDS Integers, Sequences, FiniteSets, TLC

(***************************************************************************)
(* Bounds of the model                                                     *)
(***************************************************************************)
\* poll cycles started in one behaviour
MaxCycles == 2
\* delayed refreshes (setTimeout) pending at once
MaxTimeouts == 1
\* write requests in flight at once
MaxWrites == 1
\* rows of the device table, from the top, whose limit control is used
MaxRows == 2
\* length of the device lists sorted in SpecSort
MaxSortLen == 3
\* longest history series handed to the chart on its own
MaxChartLen == 3
\* alert dialogs shown in one behaviour
MaxAlerts == 1

(***************************************************************************)
(* Program constants                                                       *)
(***************************************************************************)
\* CONFIG.historyLength; the literal 60 (and 59 = 60 - 1) of bandixApi
HistoryLength == 60
\* spacing of the backfilled points, in clock milliseconds
BackfillStepMs == 1000

(***************************************************************************)
(* Characters and strings                                                  *)
(***************************************************************************)
\* collation order of the characters used: punctuation, digits, letters,
\* a lower-case letter before its upper-case form
Alphabet ==
  << "-", ".", "1", "2", "a", "A", "b", "B", "k", "n", "o", "r", "R", "u", "U", "w" >>

Chars == { Alphabet[i] : i \in 1..Len(Alphabet) }

CharRank(c) == CHOOSE i \in 1..Len(Alphabet) : Alphabet[i] = c

\* String.prototype.toLowerCase, per character
LowerChar(c) ==
  CASE c = "A" -> "a"
    [] c = "B" -> "b"
    [] c = "R" -> "r"
    [] c = "U" -> "u"
    [] OTHER -> c

\* the comparison made on the names as they are
toLowerCase_AsIs(s) == s

toLowerCase(s) == [ i \in 1..Len(s) |-> LowerChar(s[i]) ]

\* s.split('.')[0]: the characters before the first '.'
RECURSIVE SplitDot0(_)
SplitDot0(s) ==
  IF s = << >> THEN << >>
  ELSE IF Head(s) = "." THEN << >>
  ELSE << Head(s) >> \o SplitDot0(Tail(s))

Unknown == << "U", "n", "k", "n", "o", "w", "n" >>

\* shortHostname(hostname): 'Unknown' for a missing or empty name
shortHostname(hostname) ==
  IF hostname = << >> THEN Unknown ELSE SplitDot0(hostname)

\* a.localeCompare(b) on two strings: -1, 0 or 1
RECURSIVE localeCompare(_, _)
localeCompare(a, b) ==
  IF a = << >> /\ b = << >> THEN 0
  ELSE IF a = << >> THEN -1
  ELSE IF b = << >> THEN 1
  ELSE IF CharRank(Head(a)) < CharRank(Head(b)) THEN -1
  ELSE IF CharRank(Head(a)) > CharRank(Head(b)) THEN 1
  ELSE localeCompare(Tail(a), Tail(b))

\* String(n) for the numbers compared against '' by the comparators: only
\* its emptiness matters to ''.localeCompare(String(n)), and it is never empty
NumberToString(n) == << "1" >>

(***************************************************************************)
(* Device records                                                          *)
(***************************************************************************)
NoLimit == [ enabled |-> FALSE, downloadLimit |-> 0, uploadLimit |-> 0 ]

Device(mac, hostname, ip, download, upload, downloadSpeed, uploadSpeed) ==
  [ mac |-> mac, hostname |-> hostname, ip |-> ip,
    download |-> download, upload |-> upload,
    downloadSpeed |-> downloadSpeed, uploadSpeed |-> uploadSpeed,
    speedLimit |-> NoLimit ]

SortFields == { "hostname", "ip", "download", "upload", "downloadSpeed", "uploadSpeed" }
NumericFields == { "download", "upload", "downloadSpeed", "uploadSpeed" }
SortDirections == { "asc", "desc" }

(***************************************************************************)
(* Sort engine: the comparators of updateClientsTable (app.js) and of      *)
(* ClientsTable (React), and Array.prototype.sort                          *)
(***************************************************************************)
\* JavaScript values met by the comparators
Str(s) == [ t |-> "string", s |-> s ]
Num(n) == [ t |-> "number", n |-> n ]

\* the comparator's verdict: the number it returns, or the TypeError it raises
Returns(n) == [ threw |-> FALSE, v |-> n ]
Throws == [ threw |-> TRUE, v |-> 0 ]

Sign(n) == IF n < 0 THEN -1 ELSE IF n > 0 THEN 1 ELSE 0

\* Number(v) in a subtraction: Number('') is 0
ToNumber(v) == IF v.t = "number" THEN v.n ELSE 0

\* the argument of localeCompare is converted with String()
ToStringArg(v) == IF v.t = "string" THEN v.s ELSE NumberToString(v.n)

\* app.js: a[state.sortField] || ''  (0, '' and undefined all become '')
AppFieldValue(a, field) ==
  IF field \in NumericFields
  THEN IF a[field] = 0 THEN Str(<< >>) ELSE Num(a[field])
  ELSE Str(a[field])

\* React: a[sortField] ?? ''  (only null and undefined become '')
IndexFieldValue(a, field) ==
  IF field \in NumericFields THEN Num(a[field]) ELSE Str(a[field])

\* CompareValues with a comparison that never answers "equal": the numeric
\* branch written as  a > b ? 1 : -1
CompareValues_NoTies(aVal, bVal, direction) ==
  IF aVal.t = "string"
  THEN IF direction = "asc"
       THEN Returns(localeCompare(aVal.s, ToStringArg(bVal)))
       ELSE IF bVal.t = "string"
            THEN Returns(localeCompare(bVal.s, aVal.s))
            ELSE Throws
  ELSE IF direction = "asc"
       THEN Returns(IF aVal.n > ToNumber(bVal) THEN 1 ELSE -1)
       ELSE Returns(IF ToNumber(bVal) > aVal.n THEN 1 ELSE -1)

\* CompareValues with the two subtractions of the numeric branch exchanged
CompareValues_Exchanged(aVal, bVal, direction) ==
  IF aVal.t = "string"
  THEN IF direction = "asc"
       THEN Returns(localeCompare(aVal.s, ToStringArg(bVal)))
       ELSE IF bVal.t = "string"
            THEN Returns(localeCompare(bVal.s, aVal.s))
            ELSE Throws
  ELSE IF direction = "asc"
       THEN Returns(Sign(ToNumber(bVal) - aVal.n))
       ELSE Returns(Sign(aVal.n - ToNumber(bVal)))

\* the shared tail of both comparators: the typeof test and the two branches
CompareValues(aVal, bVal, direction) ==
  IF aVal.t = "string"
  THEN IF direction = "asc"
       THEN Returns(localeCompare(aVal.s, ToStringArg(bVal)))
       ELSE IF bVal.t = "string"
            THEN Returns(localeCompare(bVal.s, aVal.s))
            ELSE Throws   \* bVal.localeCompare is not a function
  ELSE IF direction = "asc"
       THEN Returns(Sign(aVal.n - ToNumber(bVal)))
       ELSE Returns(Sign(ToNumber(bVal) - aVal.n))

\* the comparator of updateClientsTable
AppCompare(a, b, field, direction) ==
  LET aRaw == AppFieldValue(a, field)
      bRaw == AppFieldValue(b, field)
      aVal == IF field = "hostname"
              THEN Str(toLowerCase(shortHostname(aRaw.s))) ELSE aRaw
      bVal == IF field = "hostname"
              THEN Str(toLowerCase(shortHostname(bRaw.s))) ELSE bRaw
  IN  CompareValues(aVal, bVal, direction)

\* the comparator of ClientsTable.sortedClients
IndexCompare(a, b, field, direction) ==
  LET aRaw == IndexFieldValue(a, field)
      bRaw == IndexFieldValue(b, field)
      aVal == IF field = "hostname"
              THEN Str(toLowerCase(shortHostname(a.hostname))) ELSE aRaw
      bVal == IF field = "hostname"
              THEN Str(toLowerCase(shortHostname(b.hostname))) ELSE bRaw
  IN  CompareValues(aVal, bVal, direction)

Compare(pg, a, b, field, direction) ==
  IF pg = "app" THEN AppCompare(a, b, field, direction)
  ELSE IndexCompare(a, b, field, direction)

\* The order the sort works with.  Which of compare(a, b) and compare(b, a)
\* an engine calls for a pair is its own choice; when one of the two calls
\* raises, the other one does not, and gives the order of the pair.
Order(pg, a, b, field, direction) ==
  LET ab == Compare(pg, a, b, field, direction)
  IN  IF ~ab.threw THEN ab.v ELSE 0 - Compare(pg, b, a, field, direction).v

\* Array.prototype.sort (stable since ES2019), as an insertion sort: an
\* element moves in front of an earlier one only when it compares below it
RECURSIVE InsertSorted(_, _, _, _, _)
InsertSorted(pg, sorted, x, field, direction) ==
  IF sorted = << >> THEN << x >>
  ELSE LET last == sorted[Len(sorted)]
           front == SubSeq(sorted, 1, Len(sorted) - 1)
       IN  IF Order(pg, x, last, field, direction) < 0
           THEN Append(InsertSorted(pg, front, x, field, direction), last)
           ELSE Append(sorted, x)

RECURSIVE SortClients(_, _, _, _)
SortClients(pg, list, field, direction) ==
  IF list = << >> THEN << >>
  ELSE InsertSorted(pg,
         SortClients(pg, SubSeq(list, 1, Len(list) - 1), field, direction),
         list[Len(list)], field, direction)

\* some call the engine may make raises
SortMayThrow(pg, list, field, direction) ==
  \E i, j \in 1..Len(list) :
    i # j /\ Compare(pg, list[i], list[j], field, direction).threw

\* the outcomes of [...list].sort(compare): the sorted copy, or an exception
SortOutcomes(pg, list, field, direction) ==
  { [ threw |-> FALSE, rows |-> SortClients(pg, list, field, direction) ] }
  \cup IF SortMayThrow(pg, list, field, direction)
       THEN { [ threw |-> TRUE, rows |-> << >> ] } ELSE { }

(***************************************************************************)
(* Stat aggregator                                                         *)
(***************************************************************************)
RECURSIVE SumField(_, _)
SumField(list, field) ==
  IF list = << >> THEN 0
  ELSE list[1][field] + SumField(Tail(list), field)

\* refreshData (app.js): the three reduce calls over the device list
AppTotals(list) ==
  [ isNull   |-> FALSE,
    download |-> SumField(list, "download"),
    upload   |-> SumField(list, "upload"),
    combined |-> SumField(list, "download") + SumField(list, "upload") ]

\* the instantaneous totals of updateStats / Index
TotalSpeeds(list) ==
  [ down |-> SumField(list, "downloadSpeed"),
    up   |-> SumField(list, "uploadSpeed") ]

(***************************************************************************)
(* History buffer: generateDemoHistory                                     *)
(***************************************************************************)
\* Math.random() is drawn once per call, as 0.0 or 0.9, in tenths
RandomDraws == { 0, 9 }

Snapshot(timestamp, download, upload) ==
  [ timestamp |-> timestamp, download |-> download, upload |-> upload ]

\* { timestamp, download: 20000000 + random * 40000000,
\*   upload: 5000000 + random * 10000000 }, in units of 1000
DemoSnapshot(timestamp, rnd) ==
  Snapshot(timestamp, 20000 + rnd * 4000, 5000 + rnd * 1000)

\* generateDemoHistory without the shift
generateDemoHistory_NoShift(buf, now, rnd) ==
  IF Len(buf) = 0
  THEN [ k \in 1..HistoryLength |->
           DemoSnapshot(now - (HistoryLength - k) * BackfillStepMs, rnd) ]
  ELSE Append(buf, DemoSnapshot(now, rnd))

\* generateDemoHistory with the backfill loop counting up: newest first
generateDemoHistory_NewestFirst(buf, now, rnd) ==
  IF Len(buf) = 0
  THEN [ k \in 1..HistoryLength |-> DemoSnapshot(now - (k - 1) * BackfillStepMs, rnd) ]
  ELSE LET pushed == Append(buf, DemoSnapshot(now, rnd))
       IN  IF Len(pushed) > HistoryLength THEN Tail(pushed) ELSE pushed

\* generateDemoHistory() on the buffer `buf` with Date.now() = now: the
\* backfill of an empty buffer, else push and shift
generateDemoHistory(buf, now, rnd) ==
  IF Len(buf) = 0
  THEN [ k \in 1..HistoryLength |->
           DemoSnapshot(now - (HistoryLength - k) * BackfillStepMs, rnd) ]
  ELSE LET pushed == Append(buf, DemoSnapshot(now, rnd))
       IN  IF Len(pushed) > HistoryLength THEN Tail(pushed) ELSE pushed

(***************************************************************************)
(* Chart renderer: initChart / updateChart (app.js) and BandwidthChart     *)
(* (React).  Coordinates are fractions [num, den], the quotients the code  *)
(* computes in floating point.                                             *)
(***************************************************************************)
Frac(num, den) == [ num |-> num, den |-> den ]

\* the 2d context's calls, each with the point it is given
Call(op, x, y) == [ op |-> op, x |-> x, y |-> y ]
NoPoint == Frac(0, 1)

\* const padding = { top: 10, right: 10, bottom: 10, left: 10 }
Padding == 10

Canvas(width, height) == [ width |-> width, height |-> height ]

\* container.clientWidth and clientHeight as resizeCanvas may find them
CanvasSizes == { Canvas(120, 60), Canvas(220, 110), Canvas(20, 20) }

ChartWidth(canvas) == canvas.width - Padding - Padding
ChartHeight(canvas) == canvas.height - Padding - Padding

\* state.history.flatMap(p => [p.download, p.upload])
AllValues(hist) ==
  { hist[i].download : i \in 1..Len(hist) } \cup { hist[i].upload : i \in 1..Len(hist) }

\* Math.max(...allValues)
MaxValue_NoFloor(hist) ==
  LET values == AllValues(hist)
  IN  CHOOSE m \in values : \A v \in values : v <= m

\* Math.max(...allValues, 1)
MaxValue(hist) ==
  LET values == AllValues(hist) \cup { 1 }
  IN  CHOOSE m \in values : \A v \in values : v <= m

\* the divisor of stepX written as  points - 1
StepDivisor_Plain(points) == points - 1

\* the divisor of stepX:  points - 1 || 1
StepDivisor(points) == IF points - 1 = 0 THEN 1 ELSE points - 1

\* x = padding.left + i * stepX, for the point of index i (from 0)
PlotX(canvas, points, i) ==
  Frac(Padding * StepDivisor(points) + i * ChartWidth(canvas), StepDivisor(points))

\* y measured downwards from the top of the plot area
PlotY_FromTop(canvas, maxValue, point) ==
  Frac(Padding * maxValue + point * ChartHeight(canvas), maxValue)

\* y = height - padding.bottom - (point / maxValue) * chartHeight
PlotY(canvas, maxValue, point) ==
  Frac((canvas.height - Padding) * maxValue - point * ChartHeight(canvas), maxValue)

\* the baseline: height - padding.bottom
BaseY(canvas) == Frac(canvas.height - Padding, 1)

\* drawArea(data, color, fillColor): the filled area, then the line
drawArea(canvas, maxValue, data) ==
  LET n == Len(data)
      pt(i) == Call(IF i = 1 THEN "moveTo" ELSE "lineTo",
                    PlotX(canvas, n, i - 1), PlotY(canvas, maxValue, data[i]))
      edge(i) == Call("lineTo", PlotX(canvas, n, i - 1), PlotY(canvas, maxValue, data[i]))
  IN  << Call("beginPath", NoPoint, NoPoint),
         Call("moveTo", Frac(Padding, 1), BaseY(canvas)) >>
      \o [ i \in 1..n |-> edge(i) ]
      \o << Call("lineTo", PlotX(canvas, n, n - 1), BaseY(canvas)),
            Call("closePath", NoPoint, NoPoint),
            Call("createLinearGradient", Frac(0, 1), BaseY(canvas)),
            Call("fill", NoPoint, NoPoint),
            Call("beginPath", NoPoint, NoPoint) >>
      \o [ i \in 1..n |-> pt(i) ]
      \o << Call("stroke", NoPoint, NoPoint) >>

\* the calls updateChart() makes on the context for the history `hist`:
\* none when the history is empty
updateChart(canvas, hist) ==
  IF Len(hist) = 0 THEN << >>
  ELSE << Call("clearRect", NoPoint, NoPoint) >>
       \o drawArea(canvas, MaxValue(hist), [ i \in 1..Len(hist) |-> hist[i].download ])
       \o drawArea(canvas, MaxValue(hist), [ i \in 1..Len(hist) |-> hist[i].upload ])

\* what the surface shows: nothing, or the chart of a series drawn for a
\* width and a height
Blank == [ blank |-> TRUE, width |-> 0, height |-> 0, series |-> << >> ]
Drawn(canvas, hist) ==
  [ blank |-> FALSE, width |-> canvas.width, height |-> canvas.height, series |-> hist ]

\* the chart object after updateChart(): the surface is cleared and drawn
\* anew unless the function returned at its first line
ChartAfterUpdate(ch, hist) ==
  [ ch EXCEPT !.shown = IF Len(hist) = 0 THEN ch.shown ELSE Drawn(ch.canvas, hist),
              !.calls = Len(updateChart(ch.canvas, hist)) ]

\* BandwidthChart: chartData, the points handed to the chart library
chartData(data) ==
  [ i \in 1..Len(data) |->
      [ time |-> i - 1, download |-> data[i].download, upload |-> data[i].upload ] ]

\* the chart of the React page after a render with the history `hist`:
\* the library draws chartData into its container
ChartAfterRender(ch, hist) ==
  [ ch EXCEPT !.shown = IF Len(hist) = 0 THEN Blank ELSE Drawn(ch.canvas, hist),
              !.calls = Len(chartData(hist)) ]

\* resizeCanvas(): canvas.width and canvas.height are assigned, which
\* resets the bitmap; nothing is drawn
ChartAfterResize(ch, size) ==
  [ ch EXCEPT !.canvas = size, !.shown = Blank ]

(***************************************************************************)
(* Payloads                                                                *)
(***************************************************************************)
\* generateDemoClients: the eight demo devices (names shortened to the
\* model's alphabet), speeds scaled by 0.8 + random * 0.4
DemoBase ==
  << Device("01", << "a" >>,           << "1" >>,           1524288,   256789,   2500,  450),
     Device("02", << "b" >>,           << "1", "1" >>,      8945678,   1234567,  15000, 2000),
     Device("03", << "k" >>,           << "1", "2" >>,      45678900,  12345,    25000, 100),
     [ Device("04", << "n" >>,         << "2" >>,           125678900, 34567890, 45000, 8000)
         EXCEPT !.speedLimit =
           [ enabled |-> TRUE, downloadLimit |-> 50000, uploadLimit |-> 10000 ] ],
     Device("05", << "o" >>,           << "2", "1" >>,      5678900,   234567,   5000,  500),
     Device("06", << "r" >>,           << "2", "2" >>,      123456,    12345,    128,   64),
     Device("07", << "u" >>,           << "1", "1", "1" >>, 23456789,  8765432,  8000,  3000),
     Device("08", << "w" >>,           << "1", "1", "2" >>, 567890,    4567890,  200,   2000) >>

generateDemoClients(rnd) ==
  [ i \in 1..Len(DemoBase) |->
      [ DemoBase[i] EXCEPT
          !.downloadSpeed = (DemoBase[i].downloadSpeed * (80 + 4 * rnd)) \div 100,
          !.uploadSpeed   = (DemoBase[i].uploadSpeed * (80 + 4 * rnd)) \div 100 ] ]

\* generateDemoTotal (bandixApi): sums over a fresh demo device list
generateDemoTotal(rnd) ==
  LET list == generateDemoClients(rnd)
      download == SumField(list, "download")
      upload == SumField(list, "upload")
  IN  [ isNull |-> FALSE, download |-> download, upload |-> upload,
        combined |-> download + upload ]

\* device lists the backend may answer with
DevA == Device("A", << "a" >>, << "1" >>, 100, 50, 1000, 200)
DevB == Device("B", << "b" >>, << "2" >>, 200, 25, 500, 900)
DevIdle == Device("C", << >>, << "1", "2" >>, 300, 10, 0, 0)

ClientPayloads == { << >>, << DevA, DevB >>, << DevB, DevIdle >> }

\* history series the backend may answer with: k points, one per second
Series(k) == [ i \in 1..k |-> Snapshot(i * BackfillStepMs, 10 * i, i) ]

HistoryPayloads == { Series(2), Series(HistoryLength + 1) }

Status(running, interface, uptime) ==
  [ isNull |-> FALSE, running |-> running, interface |-> interface, uptime |-> uptime ]

\* useState<BandixStatus | null>(null)
NullStatus == [ isNull |-> TRUE, running |-> FALSE, interface |-> "", uptime |-> 0 ]

\* the fallback of fetchStatus (app.js)
DefaultStatus == Status(FALSE, "unknown", 0)

StatusPayloads == { Status(TRUE, "br-lan", 120) }

\* { running: true, interface, uptime: 86400 + floor(random * 3600) }
DemoStatus(interface, rnd) == Status(TRUE, interface, 86400 + rnd * 360)

Totals(download, upload, combined) ==
  [ isNull |-> FALSE, download |-> download, upload |-> upload, combined |-> combined ]

\* useState<TotalTraffic | null>(null)
NullTotals == [ isNull |-> TRUE, download |-> 0, upload |-> 0, combined |-> 0 ]

\* what the stats endpoint may answer with: the backend's own sums, taken
\* over its device list at the time of that request
TotalsPayloads ==
  { Totals(SumField(l, "download"), SumField(l, "upload"),
           SumField(l, "download") + SumField(l, "upload")) :
      l \in { << >>, << DevA, DevB >> } }

\* a JavaScript value where a list is expected
List(items) == [ isArray |-> TRUE, items |-> items ]
NotAList == [ isArray |-> FALSE, items |-> << >> ]

(***************************************************************************)
(* Data-access client: the read functions.  A response is the body of a    *)
(* successful request, or a failure (network error, non-success status or  *)
(* a body that does not parse).  A read resolves to a value or rejects.    *)
(***************************************************************************)
Ok(body) == [ ok |-> TRUE, body |-> body ]
Resolved(value) == [ rejected |-> FALSE, value |-> value ]

AppClientResponses ==
  { Ok(List(l)) : l \in ClientPayloads } \cup { Ok(NotAList), [ ok |-> FALSE, body |-> NotAList ] }
IndexClientResponses ==
  { Ok(List(l)) : l \in ClientPayloads } \cup { [ ok |-> FALSE, body |-> NotAList ] }
HistoryResponses ==
  { Ok(h) : h \in HistoryPayloads } \cup { [ ok |-> FALSE, body |-> << >> ] }
StatusResponses ==
  { Ok(st) : st \in StatusPayloads } \cup { [ ok |-> FALSE, body |-> NullStatus ] }
TotalsResponses ==
  { Ok(t) : t \in TotalsPayloads } \cup { [ ok |-> FALSE, body |-> NullTotals ] }

\* app.js: try { ... return await response.json() } catch { return fallback }
AppFetchClients(resp) == IF resp.ok THEN Resolved(resp.body) ELSE Resolved(List(<< >>))
AppFetchHistory(resp) == IF resp.ok THEN Resolved(resp.body) ELSE Resolved(<< >>)
AppFetchStatus(resp) == IF resp.ok THEN Resolved(resp.body) ELSE Resolved(DefaultStatus)

\* bandixApi: if (!response.ok) throw ...; return response.json()
IndexFetchClients(resp) ==
  IF resp.ok THEN Resolved(resp.body) ELSE [ rejected |-> TRUE, value |-> resp.body ]
IndexFetchHistory(resp) ==
  IF resp.ok THEN Resolved(resp.body) ELSE [ rejected |-> TRUE, value |-> resp.body ]
IndexFetchTotalTraffic(resp) ==
  IF resp.ok THEN Resolved(resp.body) ELSE [ rejected |-> TRUE, value |-> resp.body ]
IndexFetchStatus(resp) ==
  IF resp.ok THEN Resolved(resp.body) ELSE [ rejected |-> TRUE, value |-> resp.body ]

(***************************************************************************)
(* Limit editor: openLimitModal / closeLimitModal / applyLimit (app.js)    *)
(* and SpeedLimitModal inside ClientsTable (React).  Ceilings are in kbps. *)
(***************************************************************************)
\* the slider values set by openLimitModal, the useState defaults of
\* SpeedLimitModal
DefaultDownloadLimit == 10000
DefaultUploadLimit == 5000

PRESET_LIMITS ==
  << [ download |-> 1000,  upload |-> 500 ],
     [ download |-> 5000,  upload |-> 2500 ],
     [ download |-> 10000, upload |-> 5000 ],
     [ download |-> 25000, upload |-> 10000 ],
     [ download |-> 50000, upload |-> 20000 ] >>

\* the preset buttons pressed and the values dragged to in the model
PresetChoices == { 5 }
SliderValues == { 2000 }

Editor(open, mac, down, up) ==
  [ open |-> open, mac |-> mac, downloadLimit |-> down, uploadLimit |-> up ]

\* no client selected; the sliders have not been set by the script, the
\* modal component is not mounted
NoEditor == Editor(FALSE, "", 0, 0)

\* openLimitModal with the two slider values exchanged
openLimitModal_Exchanged(mac) ==
  Editor(TRUE, mac, DefaultUploadLimit, DefaultDownloadLimit)

\* openLimitModal(mac, hostname): the target and the slider reset
openLimitModal(mac) == Editor(TRUE, mac, DefaultDownloadLimit, DefaultUploadLimit)

\* closeLimitModal(): state.selectedClient = null; the sliders stay
closeLimitModal(ed) == [ ed EXCEPT !.open = FALSE, !.mac = "" ]

\* setSelectedClient(client): SpeedLimitModal is mounted with its useState
\* defaults
MountModal(mac) == Editor(TRUE, mac, DefaultDownloadLimit, DefaultUploadLimit)

\* setSelectedClient(null): SpeedLimitModal is unmounted, its state is gone
UnmountModal == NoEditor

\* the limit both Apply handlers build from the draft
DraftLimit(ed) ==
  [ enabled |-> TRUE, downloadLimit |-> ed.downloadLimit, uploadLimit |-> ed.uploadLimit ]

(***************************************************************************)
(* State                                                                   *)
(***************************************************************************)
VARIABLES
  page,             \* which program runs: "app" or "index"
  demoMode,         \* CONFIG.demoMode / DEMO_MODE
  clients,          \* state.clients / useState clients
  history,          \* state.history / useState history
  totalTraffic,     \* state.totalTraffic / useState totalTraffic
  status,           \* state.status / useState status
  currentInterface, \* state.currentInterface / useState currentInterface
  isRefreshing,     \* state.isRefreshing / useState isRefreshing
  historyBuffer,    \* bandixApi's module-level historyBuffer
  sortField,        \* state.sortField / ClientsTable sortField
  sortDirection,    \* state.sortDirection / ClientsTable sortDirection
  tableRows,        \* the rows of the device table as last rendered
  statsShown,       \* the stat cards as last rendered
  statusShown,      \* the service status display as last rendered
  cycles,           \* the refreshData calls suspended at await Promise.all
  started,          \* number of poll cycles started so far
  writes,           \* the write requests in flight
  timeouts,         \* pending setTimeout(refreshData, 1000) callbacks
  now,              \* the clock, Date.now()
  dropped,          \* history variable: some refreshData call returned at the guard
  fails,            \* history variable: consecutive cycles that ended in failure
  origin,           \* history variable: the cycle each part of the store came from
  appended,         \* history variable: every snapshot the generator appended
  lastSettled,      \* history variable: the cycle that ended last and its failed reads
  rendered,         \* history variable: what the device table was last sorted from
  chart,            \* the chart: its canvas size, what its surface shows, and
                    \* the number of calls the last update made on the context
  editor,           \* the limit editor: state.selectedClient and the two
                    \* sliders / SpeedLimitModal and ClientsTable.selectedClient
  alerts,           \* number of alert() dialogs shown so far
  mounted           \* the page is up: init() has run and the document is
                    \* loaded / the Index component is mounted

vars ==
  << page, demoMode, clients, history, totalTraffic, status, currentInterface,
     isRefreshing, historyBuffer, sortField, sortDirection, tableRows,
     statsShown, statusShown, cycles, started, writes, timeouts, now,
     dropped, fails, origin, appended, lastSettled, rendered, chart, editor,
     alerts, mounted >>

storeVars == << clients, history, totalTraffic, status >>
uiVars == << tableRows, statsShown, statusShown, rendered, chart >>
sortVars == << sortField, sortDirection >>
\* what no poll cycle and no limit action writes
configVars == << page, demoMode, currentInterface, alerts, mounted >>

\* Date.now() at a later call: the same millisecond, the next one, a second on
ClockSteps == { 0, 1, BackfillStepMs }

\* the contents of the stat cards and the chart legend
StatsView(list, totals, hist) ==
  [ speeds |-> TotalSpeeds(list),
    totalDownload |-> totals.download,
    deviceCount |-> Len(list),
    currentDown |-> IF Len(hist) > 0 THEN hist[Len(hist)].download ELSE 0,
    currentUp |-> IF Len(hist) > 0 THEN hist[Len(hist)].upload ELSE 0 ]

NoRows == << >>

\* the input of a completed sort: the list, the field and the direction
RenderedFrom(list, field, direction) ==
  [ done |-> TRUE, list |-> list, field |-> field, direction |-> direction ]
NotRendered == [ done |-> FALSE, list |-> << >>, field |-> "", direction |-> "" ]

\* initChart(): the canvas takes the size of its container; nothing is drawn
InitialChart == [ canvas |-> Canvas(120, 60), shown |-> Blank, calls |-> 0 ]

\* the names of the reads whose request failed
FailedReads(cr, hr, tr, sr) ==
  { r \in { "clients", "history", "totals", "status" } :
      \/ r = "clients" /\ ~cr.ok
      \/ r = "history" /\ ~hr.ok
      \/ r = "totals" /\ ~tr.ok
      \/ r = "status" /\ ~sr.ok }

Init ==
  /\ page \in { "app", "index" }
  /\ demoMode \in BOOLEAN
  /\ clients = List(<< >>)
  /\ history = << >>
  /\ totalTraffic = IF page = "app" THEN Totals(0, 0, 0) ELSE NullTotals
  /\ status = IF page = "app" THEN Status(TRUE, "br-lan", 0) ELSE NullStatus
  /\ currentInterface = "br-lan"
  /\ isRefreshing = FALSE
  /\ historyBuffer = << >>
  /\ sortField = "downloadSpeed"
  /\ sortDirection = "desc"
  /\ tableRows = NoRows
  /\ statsShown = StatsView(<< >>, Totals(0, 0, 0), << >>)
  /\ statusShown = status
  /\ cycles = { }
  /\ started = 0
  /\ writes = << >>
  /\ timeouts = 0
  /\ now = HistoryLength * BackfillStepMs
  /\ dropped = FALSE
  /\ fails = 0
  /\ origin = [ clients |-> 0, history |-> 0, status |-> 0, totals |-> 0 ]
  /\ appended = << >>
  /\ lastSettled = [ id |-> 0, failed |-> { } ]
  /\ rendered = NotRendered
  /\ chart = InitialChart
  /\ editor = NoEditor
  /\ alerts = 0
  /\ mounted = TRUE

(***************************************************************************)
(* app.js: refreshData                                                     *)
(***************************************************************************)
\* refreshData without its guard
AppGuardPasses_NoGuard == TRUE

\* if (state.isRefreshing) return;
AppGuardPasses == ~isRefreshing

\* the flag cleared as the last statement of the try block instead
AppFlagAfterCycle_InTry(threw) == IF threw THEN isRefreshing ELSE FALSE

\* finally { state.isRefreshing = false }: the flag after the cycle ended,
\* whether or not the try block threw
AppFlagAfterCycle(threw) == FALSE

\* the snapshots one generator call adds to the buffer `buf`
AppendedBy(buf, t, rnd) ==
  IF Len(buf) = 0
  THEN [ k \in 1..HistoryLength |->
           DemoSnapshot(t - (HistoryLength - k) * BackfillStepMs, rnd) ]
  ELSE << DemoSnapshot(t, rnd) >>

AllFrom(id) == [ clients |-> id, history |-> id, status |-> id, totals |-> id ]

\* The body of refreshData after await Promise.all resolved with
\* [cl, hi, st]: the three assignments, the totals, the four UI updates,
\* and the finally block.  clients.reduce raises on a value that is no
\* list; updateClientsTable raises when its sort does; either exception
\* skips the rest of the try block.
AppProcess(id, cl, hi, st, readFailed) ==
  /\ clients' = cl
  /\ history' = hi
  /\ status' = st
  /\ IF ~cl.isArray
     THEN /\ UNCHANGED << totalTraffic, tableRows, statsShown, statusShown, rendered,
                          chart >>
          /\ origin' = [ origin EXCEPT !.clients = id, !.history = id, !.status = id ]
          /\ fails' = fails + 1
          /\ isRefreshing' = AppFlagAfterCycle(TRUE)
     ELSE /\ totalTraffic' = AppTotals(cl.items)
          /\ origin' = AllFrom(id)
          /\ statsShown' = StatsView(cl.items, AppTotals(cl.items), hi)
          /\ chart' = ChartAfterUpdate(chart, hi)
          /\ \E out \in SortOutcomes("app", cl.items, sortField, sortDirection) :
               IF out.threw
               THEN /\ UNCHANGED << tableRows, statusShown, rendered >>
                    /\ fails' = fails + 1
                    /\ isRefreshing' = AppFlagAfterCycle(TRUE)
               ELSE /\ tableRows' = out.rows
                    /\ rendered' = RenderedFrom(cl.items, sortField, sortDirection)
                    /\ statusShown' = st
                    /\ fails' = IF readFailed THEN fails + 1 ELSE 0
                    /\ isRefreshing' = AppFlagAfterCycle(FALSE)

\* refreshData() returning at the guard: nothing starts, nothing changes
AppRefreshDropped ==
  /\ ~AppGuardPasses
  /\ dropped' = TRUE
  /\ UNCHANGED << configVars, editor, storeVars, isRefreshing, historyBuffer, sortVars,
                  uiVars, cycles, started, writes, timeouts, now, fails,
                  origin, appended, lastSettled >>

\* refreshData() against the backend, up to await Promise.all: the flag is
\* set and the three reads are issued
AppRefreshStart ==
  /\ AppGuardPasses
  /\ ~demoMode
  /\ started < MaxCycles
  /\ isRefreshing' = TRUE
  /\ started' = started + 1
  /\ cycles' = cycles \cup { started + 1 }
  /\ UNCHANGED << configVars, editor, storeVars, historyBuffer, sortVars, uiVars,
                  writes, timeouts, now, dropped, fails, origin, appended,
                  lastSettled >>

\* refreshData() in demo mode: the reads resolve without leaving the
\* script, so the whole cycle runs before any other event is handled
AppRefreshDemoWith(draws, steps) ==
  /\ AppGuardPasses
  /\ demoMode
  /\ started < MaxCycles
  /\ \E rnd \in draws, d \in steps :
       /\ now' = now + d
       /\ appended' = appended \o AppendedBy(history, now + d, rnd)
       /\ AppProcess(started + 1,
                     List(generateDemoClients(rnd)),
                     generateDemoHistory(history, now + d, rnd),
                     DemoStatus(currentInterface, rnd),
                     FALSE)
  /\ started' = started + 1
  /\ lastSettled' = [ id |-> started + 1, failed |-> { } ]
  /\ UNCHANGED << configVars, editor, historyBuffer, sortVars, cycles, writes,
                  timeouts, dropped >>

AppRefreshDemo == AppRefreshDemoWith(RandomDraws, ClockSteps)

AppRefreshData == AppRefreshDropped \/ AppRefreshStart \/ AppRefreshDemo

\* pollTimer = setInterval(refreshData, CONFIG.pollInterval): one tick
AppTick == page = "app" /\ AppRefreshData

\* the refresh button: addEventListener('click', refreshData)
AppRefreshClick == page = "app" /\ AppRefreshData

\* await Promise.all([...]) of cycle c resumes: the three reads have
\* settled, each with its own response
AppSettle(c) ==
  /\ page = "app"
  /\ c \in cycles
  /\ cycles' = cycles \ { c }
  /\ \E cr \in AppClientResponses, hr \in HistoryResponses, sr \in StatusResponses :
       LET cl == AppFetchClients(cr)
           hi == AppFetchHistory(hr)
           st == AppFetchStatus(sr)
       IN  /\ lastSettled' = [ id |-> c, failed |-> FailedReads(cr, hr, Ok(NullTotals), sr) ]
           /\ IF cl.rejected \/ hi.rejected \/ st.rejected
              THEN \* catch: nothing was assigned
                   /\ isRefreshing' = AppFlagAfterCycle(TRUE)
                   /\ fails' = fails + 1
                   /\ UNCHANGED << storeVars, uiVars, origin >>
              ELSE AppProcess(c, cl.value, hi.value, st.value,
                              ~cr.ok \/ ~hr.ok \/ ~sr.ok)
  /\ UNCHANGED << configVars, editor, historyBuffer, sortVars, started, writes,
                  timeouts, now, dropped, appended >>

(***************************************************************************)
(* Index (React): refreshData                                              *)
(***************************************************************************)
\* finally { setIsRefreshing(false) }
IndexFlagAfterCycle(threw) == FALSE

\* what a render of Index shows for the given state
IndexRows(cl, field, direction) == SortClients("index", cl.items, field, direction)

\* refreshData() against the backend, up to await Promise.all: there is no
\* guard; setIsRefreshing(true) and the four reads are issued
IndexRefreshStart ==
  /\ ~demoMode
  /\ started < MaxCycles
  /\ isRefreshing' = TRUE
  /\ started' = started + 1
  /\ cycles' = cycles \cup { started + 1 }
  /\ UNCHANGED << storeVars, historyBuffer, uiVars, now, fails, origin, appended,
                  lastSettled >>

\* setClients, setHistory, setTotalTraffic, setStatus, then the finally
\* block; the page renders once with all of them
IndexCommit(id, cl, hi, tt, st) ==
  /\ clients' = cl
  /\ history' = hi
  /\ totalTraffic' = tt
  /\ status' = st
  /\ origin' = AllFrom(id)
  /\ tableRows' = IndexRows(cl, sortField, sortDirection)
  /\ rendered' = RenderedFrom(cl.items, sortField, sortDirection)
  /\ statsShown' = StatsView(cl.items, tt, hi)
  /\ chart' = ChartAfterRender(chart, hi)
  /\ statusShown' = st
  /\ isRefreshing' = IndexFlagAfterCycle(FALSE)

\* refreshData() in demo mode: the reads resolve without leaving the
\* script, so the whole cycle runs before any other event is handled
IndexRefreshDemoWith(draws, steps) ==
  /\ demoMode
  /\ started < MaxCycles
  /\ started' = started + 1
  /\ \E rnd \in draws, d \in steps :
       /\ now' = now + d
       /\ appended' = appended \o AppendedBy(historyBuffer, now + d, rnd)
       /\ historyBuffer' = generateDemoHistory(historyBuffer, now + d, rnd)
       /\ IndexCommit(started + 1,
                      List(generateDemoClients(rnd)),
                      generateDemoHistory(historyBuffer, now + d, rnd),
                      generateDemoTotal(rnd),
                      DemoStatus("br-lan", rnd))
  /\ fails' = 0
  /\ lastSettled' = [ id |-> started + 1, failed |-> { } ]
  /\ UNCHANGED cycles

IndexRefreshDemo == IndexRefreshDemoWith(RandomDraws, ClockSteps)

\* one call of refreshData; the caller says what else stays as it is
IndexRefreshData == IndexRefreshStart \/ IndexRefreshDemo

\* useEffect: the initial fetch and setInterval(refreshData, 1000)
IndexTick ==
  /\ page = "index"
  /\ IndexRefreshData
  /\ UNCHANGED << configVars, editor, sortVars, writes, timeouts, dropped >>

\* Header: <button onClick={onRefresh} disabled={isRefreshing}>
IndexRefreshClick ==
  /\ page = "index"
  /\ ~isRefreshing
  /\ IndexRefreshData
  /\ UNCHANGED << configVars, editor, sortVars, writes, timeouts, dropped >>

\* await Promise.all([...]) of cycle c resumes: resolved with the four
\* results, or rejected because some read rejected
IndexSettle(c) ==
  /\ page = "index"
  /\ c \in cycles
  /\ cycles' = cycles \ { c }
  /\ \E cr \in IndexClientResponses, hr \in HistoryResponses,
        tr \in TotalsResponses, sr \in StatusResponses :
       LET cl == IndexFetchClients(cr)
           hi == IndexFetchHistory(hr)
           tt == IndexFetchTotalTraffic(tr)
           st == IndexFetchStatus(sr)
       IN  /\ lastSettled' = [ id |-> c, failed |-> FailedReads(cr, hr, tr, sr) ]
           /\ IF cl.rejected \/ hi.rejected \/ tt.rejected \/ st.rejected
              THEN \* catch: no setter was called
                   /\ isRefreshing' = IndexFlagAfterCycle(TRUE)
                   /\ fails' = fails + 1
                   /\ UNCHANGED << storeVars, uiVars, origin >>
              ELSE /\ IndexCommit(c, cl.value, hi.value, tt.value, st.value)
                   /\ fails' = IF ~cr.ok \/ ~hr.ok \/ ~tr.ok \/ ~sr.ok
                               THEN fails + 1 ELSE 0
  /\ UNCHANGED << configVars, editor, historyBuffer, sortVars, started, writes,
                  timeouts, now, dropped, appended >>

(***************************************************************************)
(* Writes: set-limit and service-control                                   *)
(***************************************************************************)
\* the limit sent by the editor with its initial slider values
SomeLimit == [ enabled |-> TRUE, downloadLimit |-> 10000, uploadLimit |-> 5000 ]

Write(kind, mac, limit) == [ kind |-> kind, mac |-> mac, limit |-> limit ]

RemoveAt(seq, i) == SubSeq(seq, 1, i - 1) \o SubSeq(seq, i + 1, Len(seq))

\* the limit a click on a device's limit control asks for: removal (null)
\* when the device has an enabled limit, else a limit from the editor
RequestedLimit(dev) == IF dev.speedLimit.enabled THEN NoLimit ELSE SomeLimit

\* Index.handleSetLimit(mac, limit), up to await setSpeedLimit: in demo
\* mode setSpeedLimit returns at once and refreshData follows
handleSetLimit(mac, limit) ==
  IF demoMode
  THEN /\ IndexRefreshDemo
       /\ UNCHANGED writes
  ELSE /\ Len(writes) < MaxWrites
       /\ writes' = Append(writes, Write("limit", mac, limit))
       /\ UNCHANGED << storeVars, isRefreshing, historyBuffer, uiVars, cycles,
                       started, now, fails, origin, appended, lastSettled >>

\* a device's limit control of Index used to its end: removal, or the
\* editor applied with its initial values
IndexSetLimit(i) ==
  /\ page = "index"
  /\ i \in 1..Len(tableRows)
  /\ i <= MaxRows
  /\ handleSetLimit(tableRows[i].mac, RequestedLimit(tableRows[i]))
  /\ UNCHANGED << configVars, editor, sortVars, timeouts, dropped >>

\* Index.handleServiceControl(action), up to await controlService: in demo
\* mode controlService returns at once and the delayed refresh is armed
IndexServiceControl ==
  /\ page = "index"
  /\ IF demoMode
     THEN /\ timeouts < MaxTimeouts
          /\ timeouts' = timeouts + 1
          /\ UNCHANGED writes
     ELSE /\ Len(writes) < MaxWrites
          /\ writes' = Append(writes, Write("service", "", NoLimit))
          /\ UNCHANGED timeouts
  /\ UNCHANGED << configVars, editor, storeVars, isRefreshing, historyBuffer, sortVars,
                  uiVars, cycles, started, now, dropped, fails, origin, appended,
                  lastSettled >>

\* the set-limit request i of Index succeeded: await refreshData()
IndexLimitWritten(i) ==
  /\ page = "index"
  /\ i \in 1..Len(writes)
  /\ writes[i].kind = "limit"
  /\ writes' = RemoveAt(writes, i)
  /\ IndexRefreshStart
  /\ UNCHANGED << configVars, editor, sortVars, timeouts, dropped >>

\* the service-control request i of Index succeeded:
\* setTimeout(refreshData, 1000)
IndexServiceWritten(i) ==
  /\ page = "index"
  /\ i \in 1..Len(writes)
  /\ writes[i].kind = "service"
  /\ timeouts < MaxTimeouts
  /\ writes' = RemoveAt(writes, i)
  /\ timeouts' = timeouts + 1
  /\ UNCHANGED << configVars, editor, storeVars, isRefreshing, historyBuffer, sortVars,
                  uiVars, cycles, started, now, dropped, fails, origin, appended,
                  lastSettled >>

\* a write request of Index failed: the handler's catch logs it
IndexWriteFailed(i) ==
  /\ page = "index"
  /\ i \in 1..Len(writes)
  /\ writes' = RemoveAt(writes, i)
  /\ UNCHANGED << configVars, editor, storeVars, isRefreshing, historyBuffer, sortVars,
                  uiVars, cycles, started, timeouts, now, dropped, fails,
                  origin, appended, lastSettled >>

\* the delayed refresh of handleServiceControl fires
IndexTimeoutFires ==
  /\ page = "index"
  /\ timeouts > 0
  /\ timeouts' = timeouts - 1
  /\ IndexRefreshData
  /\ UNCHANGED << configVars, editor, sortVars, writes, dropped >>

\* app.js setSpeedLimit(mac, limit): in demo mode it rewrites
\* state.clients, else it posts the request; nothing is rendered and no
\* read is started
setSpeedLimit(mac, limit) ==
  /\ IF demoMode
     THEN /\ clients' = List([ k \in 1..Len(clients.items) |->
                            IF clients.items[k].mac = mac
                            THEN [ clients.items[k] EXCEPT !.speedLimit = limit ]
                            ELSE clients.items[k] ])
          /\ UNCHANGED writes
     ELSE /\ Len(writes) < MaxWrites
          /\ writes' = Append(writes, Write("limit", mac, limit))
          /\ UNCHANGED clients
  /\ UNCHANGED << history, totalTraffic, status, isRefreshing, historyBuffer,
                  uiVars, cycles, started, now, fails, origin, appended,
                  lastSettled >>

\* a lookup that asks only whether the device is in the list
AppLimitEnabled_Found(mac) ==
  \E k \in 1..Len(clients.items) : clients.items[k].mac = mac

\* state.clients.find(c => c.mac === mac)?.speedLimit?.enabled
AppLimitEnabled(mac) ==
  LET found == { k \in 1..Len(clients.items) : clients.items[k].mac = mac }
  IN  /\ found # { }
      /\ clients.items[CHOOSE k \in found : \A m \in found : k <= m].speedLimit.enabled

\* a device's limit control of app.js used to its end: removal, or the
\* editor applied with its initial values
AppSetSpeedLimit(i) ==
  /\ page = "app"
  /\ i \in 1..Len(tableRows)
  /\ i <= MaxRows
  /\ clients.isArray
  /\ setSpeedLimit(tableRows[i].mac,
                   IF AppLimitEnabled(tableRows[i].mac) THEN NoLimit ELSE SomeLimit)
  /\ UNCHANGED << configVars, editor, sortVars, timeouts, dropped >>

\* the set-limit request i of app.js succeeded: setSpeedLimit returns and
\* nothing in the state changes
AppWriteSettled(i) ==
  /\ page = "app"
  /\ i \in 1..Len(writes)
  /\ writes[i].kind = "limit"
  /\ writes' = RemoveAt(writes, i)
  /\ UNCHANGED << configVars, editor, storeVars, isRefreshing, historyBuffer, sortVars,
                  uiVars, cycles, started, timeouts, now, dropped, fails,
                  origin, appended, lastSettled >>

\* the set-limit request i of app.js failed (network error or a status
\* that is not ok): the catch block logs it and shows an alert
AppLimitWriteFailed(i) ==
  /\ page = "app"
  /\ i \in 1..Len(writes)
  /\ writes[i].kind = "limit"
  /\ alerts < MaxAlerts
  /\ writes' = RemoveAt(writes, i)
  /\ alerts' = alerts + 1
  /\ UNCHANGED << page, demoMode, currentInterface, mounted, editor, storeVars,
                  isRefreshing, historyBuffer, sortVars, uiVars, cycles, started,
                  timeouts, now, dropped, fails, origin, appended, lastSettled >>

(***************************************************************************)
(* Writes: set-interface, and service-control of app.js                    *)
(***************************************************************************)
\* INTERFACES of the InterfaceSelector / the .interface-btn buttons: the
\* initial interface and one other
Interfaces == { "br-lan", "eth0" }

\* POST /interface { interface: iface }
InterfaceWrite(iface) ==
  [ kind |-> "interface", mac |-> "", limit |-> NoLimit, interface |-> iface ]

\* what stays as it is when a write is sent, answered or fails without
\* touching the store
writeFrame ==
  << page, demoMode, mounted, editor, storeVars, isRefreshing, historyBuffer,
     sortVars, uiVars, cycles, started, timeouts, now, dropped, fails, origin,
     appended, lastSettled >>

\* app.js setInterface(iface), up to await fetch, called by the click on
\* an interface button: in demo mode state.currentInterface is set at once
AppSetInterface(iface) ==
  /\ page = "app"
  /\ IF demoMode
     THEN /\ currentInterface' = iface
          /\ UNCHANGED writes
     ELSE /\ Len(writes) < MaxWrites
          /\ writes' = Append(writes, InterfaceWrite(iface))
          /\ UNCHANGED currentInterface
  /\ UNCHANGED << writeFrame, alerts >>

\* Index.handleInterfaceChange(iface), up to await setInterface: in demo
\* mode setInterface returns at once and setCurrentInterface follows
IndexInterfaceChange(iface) ==
  /\ page = "index"
  /\ IF demoMode
     THEN /\ currentInterface' = iface
          /\ UNCHANGED writes
     ELSE /\ Len(writes) < MaxWrites
          /\ writes' = Append(writes, InterfaceWrite(iface))
          /\ UNCHANGED currentInterface
  /\ UNCHANGED << writeFrame, alerts >>

\* the set-interface request i succeeded: state.currentInterface = iface /
\* setCurrentInterface(iface)
InterfaceWritten(i) ==
  /\ i \in 1..Len(writes)
  /\ writes[i].kind = "interface"
  /\ writes' = RemoveAt(writes, i)
  /\ currentInterface' = writes[i].interface
  /\ UNCHANGED << writeFrame, alerts >>

\* app.js controlService(action), up to await fetch: in demo mode it only
\* logs
AppControlService ==
  /\ page = "app"
  /\ IF demoMode
     THEN UNCHANGED writes
     ELSE /\ Len(writes) < MaxWrites
          /\ writes' = Append(writes, Write("service", "", NoLimit))
  /\ UNCHANGED << writeFrame, currentInterface, alerts >>

\* the service-control request i of app.js succeeded: controlService
\* returns
AppServiceWritten(i) ==
  /\ page = "app"
  /\ i \in 1..Len(writes)
  /\ writes[i].kind = "service"
  /\ writes' = RemoveAt(writes, i)
  /\ UNCHANGED << writeFrame, currentInterface, alerts >>

\* the set-interface or service-control request i of app.js failed: the
\* catch block logs it to the console
AppWriteLogged(i) ==
  /\ page = "app"
  /\ i \in 1..Len(writes)
  /\ writes[i].kind \in { "interface", "service" }
  /\ writes' = RemoveAt(writes, i)
  /\ UNCHANGED << writeFrame, currentInterface, alerts >>

(***************************************************************************)
(* The dashboard                                                           *)
(***************************************************************************)
Next ==
  \/ AppTick
  \/ AppRefreshClick
  \/ \E c \in 1..MaxCycles : AppSettle(c)
  \/ \E i \in 1..MaxRows : AppSetSpeedLimit(i)
  \/ \E i \in 1..MaxWrites : AppWriteSettled(i)
  \/ \E i \in 1..MaxWrites : AppLimitWriteFailed(i)
  \/ IndexTick
  \/ IndexRefreshClick
  \/ \E c \in 1..MaxCycles : IndexSettle(c)
  \/ \E i \in 1..MaxRows : IndexSetLimit(i)
  \/ IndexServiceControl
  \/ \E i \in 1..MaxWrites : IndexLimitWritten(i)
  \/ \E i \in 1..MaxWrites : IndexServiceWritten(i)
  \/ \E i \in 1..MaxWrites : IndexWriteFailed(i)
  \/ IndexTimeoutFires

Spec == Init /\ [][Next]_vars

(***************************************************************************)
(* The sort engine on its own: every short list of distinct devices from a *)
(* pool with equal names, equal numbers, zeros and a missing name, under   *)
(* the user's sort actions                                                 *)
(***************************************************************************)
SortPool ==
  { Device("P1", << "R", ".", "a" >>, << "1" >>,      100, 50, 1000, 200),
    Device("P2", << "r" >>,           << "2" >>,      100, 25, 1000, 900),
    Device("P3", << >>,               << "1", "1" >>, 300,  0,    0, 200),
    Device("P4", << "a" >>,           << "1", "2" >>, 0,   50,  500,   0),
    Device("P5", << "B", "-", "a" >>, << "2", "1" >>, 200, 25,    0, 900) }

IsInjective(seq) == \A i, j \in 1..Len(seq) : seq[i] = seq[j] => i = j

SortLists ==
  UNION { { l \in [ 1..n -> SortPool ] : IsInjective(l) } : n \in 0..MaxSortLen }

\* a handler that starts a newly chosen field in ascending order
SortSpecAfterClick_Ascending(field) ==
  IF sortField = field
  THEN [ field |-> field,
         direction |-> IF sortDirection = "asc" THEN "desc" ELSE "asc" ]
  ELSE [ field |-> field, direction |-> "asc" ]

\* handleSort / the th.sortable click handler: the sort specification
\* after a click on `field`
SortSpecAfterClick(field) ==
  IF sortField = field
  THEN [ field |-> field,
         direction |-> IF sortDirection = "asc" THEN "desc" ELSE "asc" ]
  ELSE [ field |-> field, direction |-> "desc" ]

\* sort called on the stored array itself
ClientsAfterSort_InPlace(list, sorted) == sorted

\* [...state.clients].sort(...) / [...clients].sort(...): the sort runs on a
\* copy made by the spread, so the stored array is as it was
ClientsAfterSort(list, sorted) == list

\* A click on a sortable column header.  app.js then calls
\* updateClientsTable(), whose sort may raise and leave the table as it
\* was; React renders ClientsTable again.
HandleSort(field) ==
  /\ clients.isArray
  /\ sortField' = SortSpecAfterClick(field).field
  /\ sortDirection' = SortSpecAfterClick(field).direction
  /\ IF page = "app"
     THEN \E out \in SortOutcomes("app", clients.items, sortField', sortDirection') :
            IF out.threw
            THEN UNCHANGED << clients, tableRows, rendered >>
            ELSE /\ clients' = List(ClientsAfterSort(clients.items, out.rows))
                 /\ tableRows' = out.rows
                 /\ rendered' = RenderedFrom(clients.items, sortField', sortDirection')
     ELSE /\ clients' = List(ClientsAfterSort(clients.items,
                                  IndexRows(clients, sortField', sortDirection')))
          /\ tableRows' = IndexRows(clients, sortField', sortDirection')
          /\ rendered' = RenderedFrom(clients.items, sortField', sortDirection')
  /\ UNCHANGED << configVars, editor, history, totalTraffic, status, isRefreshing,
                  historyBuffer, statsShown, statusShown, chart, cycles, started,
                  writes, timeouts, now, dropped, fails, origin, appended,
                  lastSettled >>

\* the state after the poll cycle that delivered the list
InitSort ==
  /\ page \in { "app", "index" }
  /\ demoMode = FALSE
  /\ clients \in { List(l) : l \in SortLists }
  /\ history = << >>
  /\ totalTraffic = AppTotals(clients.items)
  /\ status = Status(TRUE, "br-lan", 120)
  /\ currentInterface = "br-lan"
  /\ isRefreshing = FALSE
  /\ historyBuffer = << >>
  /\ sortField = "downloadSpeed"
  /\ sortDirection = "desc"
  /\ \E out \in SortOutcomes(page, clients.items, sortField, sortDirection) :
       /\ tableRows = out.rows
       /\ rendered = IF out.threw THEN NotRendered
                     ELSE RenderedFrom(clients.items, sortField, sortDirection)
  /\ statsShown = StatsView(clients.items, totalTraffic, history)
  /\ chart = InitialChart
  /\ editor = NoEditor
  /\ alerts = 0
  /\ mounted = TRUE
  /\ statusShown = status
  /\ cycles = { }
  /\ started = 1
  /\ writes = << >>
  /\ timeouts = 0
  /\ now = HistoryLength * BackfillStepMs
  /\ dropped = FALSE
  /\ fails = 0
  /\ origin = AllFrom(1)
  /\ appended = << >>
  /\ lastSettled = [ id |-> 1, failed |-> { } ]

NextSort == \E field \in SortFields : HandleSort(field)

SpecSort == InitSort /\ [][NextSort]_vars

(***************************************************************************)
(* The chart on its own: poll cycles that deliver short history series     *)
(* (an empty one, single points, zeros) and resizes of the window          *)
(***************************************************************************)
ChartPoints == { << 0, 0 >>, << 40, 10 >>, << 20, 30 >> }

ChartSeries ==
  UNION { { [ i \in 1..n |-> Snapshot(i, f[i][1], f[i][2]) ] : f \in [ 1..n -> ChartPoints ] }
          : n \in 0..MaxChartLen }

\* a poll cycle that delivers the history `hi`, an empty device list and
\* the status as it was: the body of refreshData after the reads
ChartCycle(hi) ==
  /\ IF page = "app"
     THEN AppProcess(1, List(<< >>), hi, status, FALSE)
     ELSE IndexCommit(1, List(<< >>), hi, totalTraffic, status) /\ UNCHANGED fails
  /\ UNCHANGED << configVars, editor, sortVars, historyBuffer, cycles, started, writes,
                  timeouts, now, dropped, appended, lastSettled >>

\* window 'resize' in app.js: the listener registered by initChart
Resize(size) ==
  /\ page = "app"
  /\ chart' = ChartAfterResize(chart, size)
  /\ UNCHANGED << configVars, editor, storeVars, isRefreshing, historyBuffer, sortVars,
                  tableRows, statsShown, statusShown, rendered, cycles, started,
                  writes, timeouts, now, dropped, fails, origin, appended,
                  lastSettled >>

InitChart ==
  /\ page \in { "app", "index" }
  /\ demoMode = FALSE
  /\ clients = List(<< >>)
  /\ history = << >>
  /\ totalTraffic = Totals(0, 0, 0)
  /\ status = Status(TRUE, "br-lan", 120)
  /\ currentInterface = "br-lan"
  /\ isRefreshing = FALSE
  /\ historyBuffer = << >>
  /\ sortField = "downloadSpeed"
  /\ sortDirection = "desc"
  /\ tableRows = NoRows
  /\ rendered = RenderedFrom(<< >>, sortField, sortDirection)
  /\ statsShown = StatsView(<< >>, totalTraffic, << >>)
  /\ statusShown = status
  /\ chart = InitialChart
  /\ editor = NoEditor
  /\ alerts = 0
  /\ mounted = TRUE
  /\ cycles = { }
  /\ started = 1
  /\ writes = << >>
  /\ timeouts = 0
  /\ now = HistoryLength * BackfillStepMs
  /\ dropped = FALSE
  /\ fails = 0
  /\ origin = AllFrom(1)
  /\ appended = << >>
  /\ lastSettled = [ id |-> 1, failed |-> { } ]

NextChart ==
  \/ \E hi \in ChartSeries : ChartCycle(hi)
  \/ \E size \in CanvasSizes : Resize(size)

SpecChart == InitChart /\ [][NextChart]_vars

(***************************************************************************)
(* The limit control on its own: the device table's limit buttons, the     *)
(* editor, poll cycles that replace the device list, and the completion of *)
(* the requests sent                                                       *)
(***************************************************************************)
\* a device with an enabled limit, as the backend reports it
DevCapped ==
  [ DevB EXCEPT !.speedLimit =
      [ enabled |-> TRUE, downloadLimit |-> 50000, uploadLimit |-> 10000 ] ]

\* the device lists delivered: with the capped device, and with neither
\* device A nor a limit
LimitLists == { << DevCapped, DevA >>, << DevB >> }

\* everything but the editor and the requests that a click inside the
\* editor, or a click that only opens it, leaves alone
pollVars ==
  << storeVars, isRefreshing, historyBuffer, uiVars, cycles, started, now, fails,
     origin, appended, lastSettled >>

\* the click handler of a .btn-limit button (app.js) / the onClick of the
\* limit cell (ClientsTable) of row i; the open editor covers the table
LimitClick(i) ==
  /\ ~editor.open
  /\ i \in 1..Len(tableRows)
  /\ i <= MaxRows
  /\ clients.isArray
  /\ LET mac == tableRows[i].mac
     IN  IF page = "app"
         THEN IF AppLimitEnabled(mac)
              THEN setSpeedLimit(mac, NoLimit) /\ UNCHANGED editor
              ELSE editor' = openLimitModal(mac) /\ UNCHANGED << pollVars, writes >>
         ELSE IF tableRows[i].speedLimit.enabled
              THEN handleSetLimit(mac, NoLimit) /\ UNCHANGED editor
              ELSE editor' = MountModal(mac) /\ UNCHANGED << pollVars, writes >>
  /\ UNCHANGED << configVars, sortVars, timeouts, dropped >>

\* 'input' on a slider / onChange of a range input: the draft changes
MoveSlider(which, value) ==
  /\ editor.open
  /\ editor' = [ editor EXCEPT ![which] = value ]
  /\ UNCHANGED << configVars, sortVars, pollVars, writes, timeouts, dropped >>

\* a preset handler that sets the download slider only
handlePreset_DownloadOnly(ed, download, upload) ==
  [ ed EXCEPT !.downloadLimit = download ]

\* handlePreset(download, upload) / the click handler of a preset button:
\* both sliders are set
handlePreset(ed, download, upload) ==
  [ ed EXCEPT !.downloadLimit = download, !.uploadLimit = upload ]

\* a click on preset button k
ChoosePreset(k) ==
  /\ editor.open
  /\ editor' = handlePreset(editor, PRESET_LIMITS[k].download, PRESET_LIMITS[k].upload)
  /\ UNCHANGED << configVars, sortVars, pollVars, writes, timeouts, dropped >>

\* Cancel, the close button or the backdrop: closeLimitModal() / onClose
CloseEditor ==
  /\ editor.open
  /\ editor' = IF page = "app" THEN closeLimitModal(editor) ELSE UnmountModal
  /\ UNCHANGED << configVars, sortVars, pollVars, writes, timeouts, dropped >>

\* applyLimit without its first line
HasSelectedClient_Unchecked == TRUE

\* if (!state.selectedClient) return;
HasSelectedClient == editor.open

\* the Apply button: applyLimit() in app.js, which may be called with no
\* client selected; handleApply and onApply in React, where the button
\* exists only while the modal is mounted
ApplyLimit ==
  /\ clients.isArray
  /\ IF page = "app"
     THEN IF HasSelectedClient
          THEN /\ setSpeedLimit(editor.mac, DraftLimit(editor))
               /\ editor' = closeLimitModal(editor)
          ELSE UNCHANGED << pollVars, writes, editor >>
     ELSE /\ editor.open
          /\ handleSetLimit(editor.mac, DraftLimit(editor))
          /\ editor' = UnmountModal
  /\ UNCHANGED << configVars, sortVars, timeouts, dropped >>

\* a poll cycle against the backend that delivers the device list `cl`
\* and leaves history, totals and status as they were: a cycle in flight
\* that ends, or a cycle of the timer from its start to its end
LimitCycle(cl) ==
  /\ ~demoMode
  /\ IF page = "app"
     THEN AppProcess(1, List(cl), history, status, FALSE)
     ELSE IndexCommit(1, List(cl), history, totalTraffic, status) /\ UNCHANGED fails
  /\ cycles' = IF cycles = { } THEN cycles
               ELSE cycles \ { CHOOSE c \in cycles : \A d \in cycles : c <= d }
  /\ UNCHANGED << configVars, editor, sortVars, historyBuffer, started, writes,
                  timeouts, now, dropped, appended, lastSettled >>

\* a timer tick in demo mode, the whole cycle, with every random factor
\* at its least and one second since the last tick
DemoCycle ==
  /\ demoMode
  /\ IF page = "app"
     THEN AppRefreshDemoWith({ 0 }, { BackfillStepMs })
     ELSE /\ IndexRefreshDemoWith({ 0 }, { BackfillStepMs })
          /\ UNCHANGED << configVars, editor, sortVars, writes, timeouts, dropped >>

\* against the backend: the state after a first poll cycle that delivered
\* the capped device and device A
InitLimitBackend ==
  /\ page \in { "app", "index" }
  /\ demoMode = FALSE
  /\ clients = List(<< DevCapped, DevA >>)
  /\ history = << >>
  /\ totalTraffic = AppTotals(clients.items)
  /\ status = Status(TRUE, "br-lan", 120)
  /\ currentInterface = "br-lan"
  /\ isRefreshing = FALSE
  /\ historyBuffer = << >>
  /\ sortField = "downloadSpeed"
  /\ sortDirection = "desc"
  /\ tableRows = SortClients(page, clients.items, sortField, sortDirection)
  /\ rendered = RenderedFrom(clients.items, sortField, sortDirection)
  /\ statsShown = StatsView(clients.items, totalTraffic, history)
  /\ statusShown = status
  /\ chart = InitialChart
  /\ editor = NoEditor
  /\ alerts = 0
  /\ mounted = TRUE
  /\ cycles = { }
  /\ started = 1
  /\ writes = << >>
  /\ timeouts = 0
  /\ now = HistoryLength * BackfillStepMs
  /\ dropped = FALSE
  /\ fails = 0
  /\ origin = AllFrom(1)
  /\ appended = << >>
  /\ lastSettled = [ id |-> 1, failed |-> { } ]

\* in demo mode the device list is the generated one: the state before
\* the first poll cycle
InitLimit == InitLimitBackend \/ (Init /\ demoMode)

NextLimit ==
  \/ \E i \in 1..MaxRows : LimitClick(i)
  \/ \E which \in { "downloadLimit", "uploadLimit" }, value \in SliderValues :
       MoveSlider(which, value)
  \/ \E k \in PresetChoices : ChoosePreset(k)
  \/ CloseEditor
  \/ ApplyLimit
  \/ \E cl \in LimitLists : LimitCycle(cl)
  \/ DemoCycle
  \/ \E i \in 1..MaxWrites : AppWriteSettled(i)
  \/ \E i \in 1..MaxWrites : AppLimitWriteFailed(i)
  \/ \E i \in 1..MaxWrites : IndexLimitWritten(i)
  \/ \E i \in 1..MaxWrites : IndexWriteFailed(i)

SpecLimit == InitLimit /\ [][NextLimit]_vars

(***************************************************************************)
(* The three writes on their own: each is sent by its control and is       *)
(* answered or fails, from the state after the first poll cycle            *)
(***************************************************************************)
NextWrite ==
  \/ DemoCycle
  \/ \E i \in 1..MaxRows : AppSetSpeedLimit(i)
  \/ \E iface \in Interfaces : AppSetInterface(iface)
  \/ AppControlService
  \/ \E i \in 1..MaxWrites : AppWriteSettled(i)
  \/ \E i \in 1..MaxWrites : InterfaceWritten(i)
  \/ \E i \in 1..MaxWrites : AppServiceWritten(i)
  \/ \E i \in 1..MaxWrites : AppLimitWriteFailed(i)
  \/ \E i \in 1..MaxWrites : AppWriteLogged(i)
  \/ \E i \in 1..MaxRows : IndexSetLimit(i)
  \/ \E iface \in Interfaces : IndexInterfaceChange(iface)
  \/ IndexServiceControl
  \/ \E i \in 1..MaxWrites : IndexLimitWritten(i)
  \/ \E i \in 1..MaxWrites : IndexServiceWritten(i)
  \/ \E i \in 1..MaxWrites : IndexWriteFailed(i)
  \/ IndexTimeoutFires

SpecWrite == InitLimit /\ [][NextWrite]_vars

(***************************************************************************)
(* The sort headers next to the other controls: sort clicks among poll     *)
(* cycles, limit, interface and service actions                            *)
(***************************************************************************)
NextControls ==
  \/ \E field \in SortFields : HandleSort(field)
  \/ \E cl \in LimitLists : LimitCycle(cl)
  \/ \E i \in 1..MaxRows : AppSetSpeedLimit(i) \/ IndexSetLimit(i)
  \/ \E iface \in Interfaces : AppSetInterface(iface) \/ IndexInterfaceChange(iface)
  \/ AppControlService
  \/ IndexServiceControl
  \/ \E i \in 1..MaxWrites :
        \/ AppWriteSettled(i)
        \/ InterfaceWritten(i)
        \/ AppServiceWritten(i)
        \/ IndexLimitWritten(i)
        \/ IndexServiceWritten(i)
  \/ IndexTimeoutFires

SpecControls == InitLimitBackend /\ [][NextControls]_vars

(***************************************************************************)
(* Teardown of the React page: Index unmounts while timers are armed and   *)
(* requests are in flight.  app.js has no teardown: its interval and its   *)
(* resize listener live until the document is unloaded.                    *)
(***************************************************************************)
\* the cleanup of the polling effect: clearInterval(interval)
Teardown ==
  /\ page = "index"
  /\ mounted
  /\ mounted' = FALSE
  /\ UNCHANGED << page, demoMode, currentInterface, alerts, editor, storeVars,
                  isRefreshing, historyBuffer, sortVars, uiVars, cycles, started,
                  writes, timeouts, now, dropped, fails, origin, appended,
                  lastSettled >>

\* a tick of the interval, which exists while the effect is not cleaned up
MountedTick == mounted /\ IndexTick

\* a click on a service button, which exists while Index is mounted
MountedServiceControl == mounted /\ IndexServiceControl

InitTeardown == Init /\ page = "index"

NextTeardown ==
  \/ Teardown
  \/ MountedTick
  \/ MountedServiceControl
  \/ \E c \in 1..MaxCycles : IndexSettle(c)
  \/ \E i \in 1..MaxWrites : IndexServiceWritten(i)
  \/ \E i \in 1..MaxWrites : IndexWriteFailed(i)
  \/ IndexTimeoutFires

SpecTeardown == InitTeardown /\ [][NextTeardown]_vars

(***************************************************************************)
(* Properties                                                              *)
(***************************************************************************)
\* the history generator's buffer: state.history in app.js, the module's
\* historyBuffer in bandixApi
Buffer == IF page = "app" THEN history ELSE historyBuffer

LastN(seq, n) == IF Len(seq) <= n THEN seq ELSE SubSeq(seq, Len(seq) - n + 1, Len(seq))

\* a step in which a poll cycle ends: a suspended call resumes and runs to
\* its end, or a demo-mode call runs from start to end
CycleEnds ==
  \/ cycles' # cycles /\ cycles' \subseteq cycles
  \/ started' # started /\ cycles' = cycles

\* a step of the interval timer: one call of refreshData
TimerTick == AppTick \/ IndexTick

\* C1: in app.js at most one poll cycle is in flight, and a refreshData call
\* made while state.isRefreshing is true starts no reads, queues nothing
\* and changes no state.
C1_SingleCycleInFlight ==
  /\ [](page = "app" => Cardinality(cycles) <= 1)
  /\ [][ (page = "app" /\ isRefreshing) =>
           /\ started' = started
           /\ cycles' \subseteq cycles
           /\ dropped' # dropped =>
                UNCHANGED << storeVars, uiVars, isRefreshing, cycles, writes, timeouts >>
       ]_vars

\* C1 witness: a call was dropped at the guard while a cycle is in flight
C1_Witness == page = "app" /\ dropped /\ isRefreshing /\ Cardinality(cycles) = 1

\* C2 (as claimed): in Index the number of refreshData cycles in flight is
\* at most 1.
C2_NoOverlapInIndex == page = "index" => Cardinality(cycles) <= 1

C4_IndependentFallback ==
  (lastSettled.id # 0 /\ lastSettled.failed # { } /\ clients.isArray) =>
    /\ origin = AllFrom(lastSettled.id)
    /\ "clients" \in lastSettled.failed => clients = List(<< >>)
    /\ "history" \in lastSettled.failed => history = << >>
    /\ "status" \in lastSettled.failed => status = DefaultStatus

\* C5: the generator's buffer never exceeds the capacity and always holds
\* the most recently appended snapshots, at most HistoryLength of them, in
\* append order (so each append beyond capacity evicted exactly the oldest).
C5_SlidingWindow ==
  demoMode =>
    /\ Len(Buffer) <= HistoryLength
    /\ Buffer = LastN(appended, HistoryLength)

\* C5 witness: more than HistoryLength snapshots were appended
C5_Witness ==
  demoMode /\ Len(appended) > HistoryLength /\ Len(Buffer) = HistoryLength

\* C6 (as claimed): the history held in the store after a poll cycle
\* against the backend has at most HistoryLength points.
C6_TruncatedToCapacity == ~demoMode => Len(history) <= HistoryLength

C8_TotalsAreAggregates ==
  (origin.clients # 0 /\ origin.totals = origin.clients /\ clients.isArray) =>
    /\ totalTraffic = AppTotals(clients.items)
    /\ totalTraffic.combined = totalTraffic.download + totalTraffic.upload
    /\ statsShown.speeds = TotalSpeeds(clients.items)
    /\ clients.items = << >> =>
         totalTraffic = Totals(0, 0, 0) /\ statsShown.speeds = [ down |-> 0, up |-> 0 ]

\* C9 (as claimed): whenever the scheduler is idle, device list, history,
\* status and totals all come from one and the same poll cycle.
C9_AtomicReplacement ==
  ~isRefreshing =>
    /\ origin.history = origin.clients
    /\ origin.status = origin.clients
    /\ origin.totals = origin.clients

\* the key the claim compares two devices by
SortKey(dev, field) ==
  IF field = "hostname" THEN toLowerCase(shortHostname(dev.hostname)) ELSE dev[field]

PositionIn(list, dev) == CHOOSE i \in 1..Len(list) : list[i] = dev

\* C10: the rendered rows are a permutation of the list they were sorted
\* from, and any two devices with equal sort keys appear in the same
\* relative order as in that list.
C10_SortIsStable ==
  rendered.done =>
    /\ Len(tableRows) = Len(rendered.list)
    /\ \A i \in 1..Len(rendered.list) : \E j \in 1..Len(tableRows) :
         tableRows[j] = rendered.list[i]
    /\ \A i, j \in 1..Len(tableRows) :
         ( /\ i < j
           /\ SortKey(tableRows[i], rendered.field) = SortKey(tableRows[j], rendered.field) )
         => PositionIn(rendered.list, tableRows[i]) < PositionIn(rendered.list, tableRows[j])

\* C10 witness: a completed sort that moved rows and left two devices with
\* equal keys next to each other
C10_Witness ==
  /\ rendered.done
  /\ tableRows # rendered.list
  /\ \E i \in 1..(Len(tableRows) - 1) :
       SortKey(tableRows[i], rendered.field) = SortKey(tableRows[i + 1], rendered.field)

\* C11: sorting for display leaves the stored device list as it is, elements
\* and order: no sort action changes it, and the list a completed sort was
\* given is still the stored one.
C11_SortLeavesStoreAlone ==
  /\ [][ clients' = clients ]_vars
  /\ [](rendered.done => rendered.list = clients.items)

\* C11 witness: after a click the table shows an order that differs from
\* the order of the stored list
C11_Witness ==
  /\ rendered.done /\ rendered.field # "downloadSpeed"
  /\ tableRows # clients.items
  /\ clients \in { List(l) : l \in SortLists }

\* the two cases of one letter
CasePairs == { << "a", "A" >>, << "b", "B" >>, << "r", "R" >>, << "u", "U" >> }

SameLetter(c, d) == c = d \/ << c, d >> \in CasePairs \/ << d, c >> \in CasePairs

\* two names that differ at most in letter case and in what follows the
\* first dot
RECURSIVE SameDisplayName(_, _)
SameDisplayName(x, y) ==
  LET xEnds == x = << >> \/ Head(x) = "."
      yEnds == y = << >> \/ Head(y) = "."
  IN  IF xEnds \/ yEnds THEN xEnds /\ yEnds
      ELSE SameLetter(Head(x), Head(y)) /\ SameDisplayName(Tail(x), Tail(y))

\* two named devices whose names are the same display name
SameNamed(a, b) ==
  a.hostname # << >> /\ b.hostname # << >> /\ SameDisplayName(a.hostname, b.hostname)

\* C12: two devices whose names differ only in letter case or in a domain
\* suffix compare equal by name on both pages and in both directions, and
\* keep their input order in every completed sort by name.
C12_NameKeyFoldsCaseAndDomain ==
  /\ \A a, b \in SortPool, direction \in SortDirections :
       SameNamed(a, b) =>
         /\ AppCompare(a, b, "hostname", direction) = Returns(0)
         /\ IndexCompare(a, b, "hostname", direction) = Returns(0)
  /\ (rendered.done /\ rendered.field = "hostname") =>
       \A i, j \in 1..Len(tableRows) :
         (i < j /\ SameNamed(tableRows[i], tableRows[j])) =>
           PositionIn(rendered.list, tableRows[i]) < PositionIn(rendered.list, tableRows[j])

\* C12 witness: an ascending sort by name that moved rows and kept together
\* two devices named alike up to case and domain suffix
C12_Witness ==
  /\ rendered.done /\ rendered.field = "hostname" /\ rendered.direction = "asc"
  /\ tableRows # rendered.list
  /\ \E i \in 1..(Len(tableRows) - 1) :
       /\ SameNamed(tableRows[i], tableRows[i + 1])
       /\ tableRows[i].hostname # tableRows[i + 1].hostname

\* the rows are the devices of the list the sort was given, each once
IsPermutationOf(rows, list) ==
  /\ Len(rows) = Len(list)
  /\ \A i \in 1..Len(list) : \E j \in 1..Len(rows) : rows[j] = list[i]

\* C13 (as claimed): a completed sort excludes no device; ascending by a
\* numeric field, the devices whose value is zero or missing come before
\* those with a positive value; ascending by name, a device without a name
\* comes before every device with a non-empty name.
C13_MissingValueSortsFirst ==
  rendered.done =>
    /\ IsPermutationOf(tableRows, rendered.list)
    /\ (rendered.field \in NumericFields /\ rendered.direction = "asc") =>
         \A i, j \in 1..Len(tableRows) :
           (tableRows[i][rendered.field] = 0 /\ tableRows[j][rendered.field] > 0) => i < j
    /\ (rendered.field = "hostname" /\ rendered.direction = "asc") =>
         \A i, j \in 1..Len(tableRows) :
           (tableRows[i].hostname = << >> /\ tableRows[j].hostname # << >>) => i < j

C15_DegenerateHistory ==
  /\ \A size \in CanvasSizes : updateChart(size, << >>) = << >>
  /\ chartData(<< >>) = << >>
  /\ page = "app" => chart.calls = Len(updateChart(chart.canvas, history))
  /\ (page = "app" /\ history = << >>) => chart.calls = 0
  /\ Len(history) = 1 =>
       LET calls == updateChart(chart.canvas, history)
       IN  /\ Len(calls) > 0
           /\ \A k \in 1..Len(calls) :
                /\ calls[k].x.den # 0 /\ calls[k].y.den # 0
                /\ calls[k].op \in { "moveTo", "lineTo" } =>
                     calls[k].x.num = Padding * calls[k].x.den
           /\ Len(chartData(history)) = 1 /\ chartData(history)[1].time = 0

\* C15 witness: a poll cycle of app.js drew a history of one snapshot
C15_Witness ==
  /\ page = "app" /\ Len(history) = 1
  /\ chart.shown = Drawn(chart.canvas, history) /\ chart.calls > 0

\* C16 (as claimed): in app.js, whenever the store holds a non-empty
\* history whose poll cycle got as far as its display updates, the surface
\* shows the chart of that history drawn for the current width and height
\* of the canvas, also right after a resize.
C16_ResizeRedraws ==
  (page = "app" /\ Len(history) > 0 /\ origin.history # 0
     /\ origin.totals = origin.history) =>
    chart.shown = Drawn(chart.canvas, history)

\* the request Apply hands to the data-access client: the draft, for the
\* device the editor was opened for
AppliedRequest == Write("limit", editor.mac, DraftLimit(editor))

\* C17: Apply in the open editor hands exactly one set-limit request to the
\* data-access client, { enabled: true, downloadLimit, uploadLimit } of the
\* draft for the device chosen at opening, and closes the editor in the same
\* step, before the request is answered; against the backend the request is
\* the one POST appended to those in flight, in demo mode the client answers
\* it locally and nothing is in flight.  While the editor stays open its
\* device never changes, whatever the poll cycles deliver; the answer to a
\* write, success or failure, leaves the editor as it is; Apply with no
\* editor open sends nothing and changes no device.
C17_ApplySendsDraftOnce ==
  /\ [][(ApplyLimit /\ editor.open) =>
          /\ ~editor'.open
          /\ writes' = IF demoMode THEN writes ELSE Append(writes, AppliedRequest)]_vars
  /\ [][(ApplyLimit /\ ~editor.open) =>
          /\ writes' = writes
          /\ clients' = clients
          /\ ~editor'.open]_vars
  /\ [][(editor.open /\ editor'.open) => editor'.mac = editor.mac]_vars
  /\ [][Len(writes') < Len(writes) => editor' = editor]_vars

\* the editor is closed again and the one request in flight carries an
\* edited draft for a device that the device list no longer holds
C17_Witness ==
  /\ ~editor.open
  /\ Len(writes) = 1
  /\ writes[1].limit.enabled
  /\ writes[1].limit.downloadLimit # DefaultDownloadLimit
  /\ \A k \in 1..Len(clients.items) : clients.items[k].mac # writes[1].mac

\* C18: while the editor is open, a slider or a preset changes the draft
\* and nothing else: no request is added to those in flight and the store
\* is as it was; a preset leaves the draft equal to one of the preset
\* pairs, download and upload set in the same step; Cancel and close leave
\* the editor closed, with no request added and the store as it was.
C18_EditingIsLocal ==
  /\ [][(editor.open /\ editor'.open /\ editor' # editor) =>
          /\ writes' = writes
          /\ storeVars' = storeVars]_vars
  /\ [][(\E k \in PresetChoices : ChoosePreset(k)) =>
          \E k \in DOMAIN PRESET_LIMITS :
            /\ editor'.downloadLimit = PRESET_LIMITS[k].download
            /\ editor'.uploadLimit = PRESET_LIMITS[k].upload]_vars
  /\ [][CloseEditor =>
          /\ ~editor'.open
          /\ writes' = writes
          /\ storeVars' = storeVars]_vars

\* the open editor holds a preset pair that differs from the initial
\* values in both ceilings, and no request has been sent
C18_Witness ==
  /\ editor.open
  /\ editor.downloadLimit = PRESET_LIMITS[5].download
  /\ editor.uploadLimit = PRESET_LIMITS[5].upload
  /\ editor.uploadLimit # DefaultUploadLimit
  /\ writes = << >>

\* the store holds a device of this hardware address with an enabled limit
StoreLimitEnabled(mac) ==
  \E k \in 1..Len(clients.items) :
    /\ clients.items[k].mac = mac
    /\ clients.items[k].speedLimit.enabled

\* C19: a click on the limit control of a device whose limit is enabled
\* hands a set-limit request with limit null for that device to the
\* data-access client (against the backend: one POST appended to those in
\* flight) and leaves the editor closed; a click on the limit control of a
\* device with no enabled limit opens the editor for that device, adds no
\* request and leaves the store as it was.
C19_RemovalBypassesEditor ==
  [][\A i \in 1..MaxRows :
       LimitClick(i) =>
         IF StoreLimitEnabled(tableRows[i].mac)
         THEN /\ ~editor'.open
              /\ writes' = IF demoMode THEN writes
                           ELSE Append(writes, Write("limit", tableRows[i].mac, NoLimit))
         ELSE /\ editor'.open
              /\ editor'.mac = tableRows[i].mac
              /\ writes' = writes
              /\ storeVars' = storeVars]_vars

\* a removal is in flight for the capped device, sent with the editor
\* closed, and the editor has then been opened for the device without limit
C19_Witness ==
  /\ writes = << Write("limit", DevCapped.mac, NoLimit) >>
  /\ editor.open
  /\ editor.mac = DevA.mac
  /\ ~StoreLimitEnabled(DevA.mac)

\* the set-limit requests among the requests in flight
LimitWrites(w) == Cardinality({ k \in 1..Len(w) : w[k].kind = "limit" })

\* C20: when a set-limit request, sent by Apply or by a direct removal, has
\* been answered with success, the limit control starts a read cycle in the
\* same step, without waiting for the timer.
C20_WriteStartsRefresh ==
  [][(/\ LimitWrites(writes') < LimitWrites(writes)
      /\ ~(\E i \in 1..MaxWrites : IndexWriteFailed(i) \/ AppLimitWriteFailed(i)))
       => started' = started + 1]_vars

\* C21 (in demo mode, where no backend could set a limit again): the
\* device list committed by the poll cycle that follows a removal shows the
\* device without an enabled limit.  In React the removal is followed by
\* its own refresh, whose commit is the next one; in app.js the removal is
\* written into the store and the next commit is the one of the next tick.
C21_RemovalVisibleAfterCycle ==
  /\ [][\A i \in 1..MaxRows :
          (LimitClick(i) /\ page = "index" /\ demoMode
             /\ StoreLimitEnabled(tableRows[i].mac))
            => ~StoreLimitEnabled(tableRows[i].mac)']_vars
  /\ [][(DemoCycle /\ page = "app") =>
          \A k \in 1..Len(clients.items) :
            ~clients.items[k].speedLimit.enabled
              => ~StoreLimitEnabled(clients.items[k].mac)']_vars

\* write request i fails
WriteFails(i) == AppLimitWriteFailed(i) \/ AppWriteLogged(i) \/ IndexWriteFailed(i)

\* C22: a write that fails is not sent again (it leaves the requests in
\* flight and nothing takes its place), the store and the selected
\* interface stay as they were, and the user is shown one notification.
C22_FailedWriteIsNotified ==
  [][\A i \in 1..MaxWrites :
       WriteFails(i) =>
         /\ writes' = RemoveAt(writes, i)
         /\ storeVars' = storeVars
         /\ currentInterface' = currentInterface
         /\ alerts' = alerts + 1]_vars

\* C23: a device-list read never hands the cycle a value that is no list
\* (a body of the wrong shape yields the safe default, the empty list), so
\* the store's device list is a list in every state, and in the standalone
\* script no fault cuts the commit short: the totals in the store are
\* those computed from the device list in the store.
C23_MalformedReadFallsBack ==
  /\ clients.isArray
  /\ (page = "app" /\ started > 0) => origin.totals = origin.clients

\* C24: once the page is torn down, no timer, neither the interval nor a
\* delayed refresh armed before or after, starts a poll cycle.
C24_TeardownStopsTimers ==
  [][~mounted => started' = started]_vars

\* the calls of the last updateChart() that are given a point of a series
PlottedPoints ==
  LET canvas == Canvas(chart.shown.width, chart.shown.height)
      calls == updateChart(canvas, chart.shown.series)
  IN  { calls[k] : k \in { n \in 1..Len(calls) : calls[n].op \in { "moveTo", "lineTo" } } }

\* C25: in every chart drawn by updateChart, maxValue is the greatest of
\* all download and upload values of the series and 1, hence at least 1
\* also when every value is zero, and every point handed to the context
\* has its y between the top of the plot area (padding.top) and its
\* baseline (height - padding.bottom).
C25_ScaleAtLeastOne ==
  (page = "app" /\ ~chart.shown.blank) =>
    LET hist == chart.shown.series
        maxValue == MaxValue(hist)
    IN  /\ maxValue >= 1
        /\ \A v \in AllValues(hist) : v <= maxValue
        /\ maxValue \in AllValues(hist) \cup { 1 }
        /\ \A c \in PlottedPoints :
             /\ c.y.den > 0
             /\ Padding * c.y.den <= c.y.num
             /\ c.y.num <= (chart.shown.height - Padding) * c.y.den

\* a series whose values are all zero has been drawn
C25_Witness ==
  /\ page = "app"
  /\ ~chart.shown.blank
  /\ AllValues(chart.shown.series) = { 0 }
  /\ PlottedPoints # { }

\* max(k - 1, 1)
AtLeastOne(n) == IF n >= 1 THEN n ELSE 1

\* C26 (as claimed): updateChart hands point i (from 0) of the k download points, of
\* value v, to the context at x = i * (width / max(k - 1, 1)) and
\* y = height - (v / maxValue) * height, width and height being those of
\* the canvas; so the first point is at x = 0.
C26_LinearMapping ==
  (page = "app" /\ ~chart.shown.blank) =>
    LET hist == chart.shown.series
        width == chart.shown.width
        height == chart.shown.height
        k == Len(hist)
        maxValue == MaxValue(hist)
        calls == updateChart(Canvas(width, height), hist)
    IN  \A i \in 0..(k - 1) :
          LET c == calls[4 + i]
              v == hist[i + 1].download
          IN  /\ c.x.num * AtLeastOne(k - 1) = i * width * c.x.den
              /\ c.y.num * maxValue = (height * maxValue - v * height) * c.y.den

\* C26 (amended): updateChart hands point i (from 0) of the k points of
\* either series, of value v, to the context at
\* x = 10 + i * ((width - 20) / max(k - 1, 1)) and
\* y = height - 10 - (v / maxValue) * (height - 20): a linear mapping onto
\* the canvas inset by a padding of 10 on every side.  The first point is
\* at x = 10, the last of k >= 2 points at x = width - 10, value 0 is at
\* y = height - 10 and value maxValue at y = 10.
C26_InsetMapping ==
  (page = "app" /\ ~chart.shown.blank) =>
    LET hist == chart.shown.series
        width == chart.shown.width
        height == chart.shown.height
        k == Len(hist)
        maxValue == MaxValue(hist)
        calls == updateChart(Canvas(width, height), hist)
        At(c, i, v) ==
          /\ c.x.num * AtLeastOne(k - 1)
               = (10 * AtLeastOne(k - 1) + i * (width - 20)) * c.x.den
          /\ c.y.num * maxValue
               = ((height - 10) * maxValue - v * (height - 20)) * c.y.den
          /\ i = 0 => c.x.num = 10 * c.x.den
          /\ (i = k - 1 /\ k >= 2) => c.x.num = (width - 10) * c.x.den
          /\ v = 0 => c.y.num = (height - 10) * c.y.den
          /\ v = maxValue => c.y.num = 10 * c.y.den
    IN  \A i \in 0..(k - 1) :
          /\ At(calls[4 + i], i, hist[i + 1].download)
          /\ At(calls[2 * k + 12 + i], i, hist[i + 1].upload)

\* a chart of at least two points has been drawn, one of them at the
\* greatest value of the series and one at zero
C26_Witness ==
  /\ page = "app"
  /\ ~chart.shown.blank
  /\ Len(chart.shown.series) >= 2
  /\ MaxValue(chart.shown.series) > 1
  /\ \E i, j \in 1..Len(chart.shown.series) :
       /\ chart.shown.series[i].download = MaxValue(chart.shown.series)
       /\ chart.shown.series[j].upload = 0

\* C27: every step that opens the editor is a click on the limit control
\* of a device, sets the target to that device and the draft to download
\* 10000 and upload 5000, whatever an earlier session left behind.
C27_OpensWithDefaults ==
  [][(~editor.open /\ editor'.open) =>
       /\ editor'.downloadLimit = 10000
       /\ editor'.uploadLimit = 5000
       /\ \E i \in 1..MaxRows :
            /\ LimitClick(i)
            /\ editor'.mac = tableRows[i].mac]_vars

\* the editor is open with the defaults while the request sent by an
\* earlier session, with an edited draft, is still in flight
C27_Witness ==
  /\ editor.open
  /\ editor.downloadLimit = 10000
  /\ editor.uploadLimit = 5000
  /\ Len(writes) = 1
  /\ writes[1].limit.enabled
  /\ writes[1].limit.uploadLimit # 5000

\* C28: a click on the header of the active field keeps the field and
\* turns the direction round; a click on another header makes that field
\* the active one with direction descending; and no other step (a poll
\* cycle, a limit, interface or service action, the answer to a request)
\* changes field or direction.
C28_SortSpecOnlyByUser ==
  /\ [][\A field \in SortFields :
          HandleSort(field) =>
            IF field = sortField
            THEN /\ sortField' = sortField
                 /\ sortDirection' \in SortDirections \ { sortDirection }
            ELSE /\ sortField' = field
                 /\ sortDirection' = "desc"]_vars
  /\ [][sortVars' # sortVars => \E field \in SortFields : HandleSort(field)]_vars

\* the table is sorted by name, ascending, which took two clicks, and a
\* poll cycle has been committed and a request sent since the page came up
C28_Witness ==
  /\ sortField = "hostname"
  /\ sortDirection = "asc"
  /\ Len(writes) = 1
  /\ lastSettled.id >= 1
  /\ clients.items # << >>

\* C29 (as claimed): in app.js, whenever a poll cycle has stored a device
\* list, the table was rendered from that list without an exception, so
\* the status display that is updated after the table shows the status the
\* same cycle stored.
C29_TableRenderNeverRaises ==
  (page = "app" /\ origin.clients # 0 /\ clients.isArray) =>
    /\ statusShown = status
    /\ tableRows = SortClients("app", clients.items, sortField, sortDirection)

\* C30 (as claimed): in the React page no step replaces the results held in
\* the store by those of a cycle that started earlier, and isRefreshing is
\* true in exactly the states in which some cycle is in flight.
C30_CommitsInStartOrder ==
  /\ [][page = "index" =>
          /\ origin'.clients >= origin.clients
          /\ origin'.history >= origin.history
          /\ origin'.status >= origin.status]_vars
  /\ [](page = "index" => (isRefreshing <=> cycles # { }))


=============================================================================
